---- MODULE Spec2Model ----
(***************************************************************************)
(* Token validation of the booking application: KeycloakService            *)
(* (_get_jwks_cached, decode_token) over CacheService (Redis), python-jose  *)
(* jwt.decode and the pydantic Claims schema.                               *)
(*                                                                          *)
(* One process per concurrent decode_token coroutine; every `await` of the  *)
(* source is a step boundary.  Time is in seconds.                          *)
(*                                                                          *)
(* The backend's request dependencies (get_current_user, require_roles,     *)
(* get_current_user_from_cookies, validate_csrf) over its synchronous       *)
(* decode_token, and RateLimiterMiddleware.dispatch, each under a           *)
(* specification of its own (SpecGate, SpecRate).                           *)
(*                                                                          *)
(* The auth router (login, logout, callback) with the cookies its           *)
(* responses set and the cookie jar of one client (SpecSession).            *)
(*                                                                          *)
(* The websocket ConnectionManager (connect, disconnect, broadcast,         *)
(* broadcast_to_appointment) with one broadcast in flight (SpecWs).         *)
(***************************************************************************)
EXTENDS Integers, FiniteSets, Sequences, TLC

\* ------------------------------------------------------------------ bounds
NumCallers == 2
MaxTicks == 2
MaxProbeTime == 20
max_requests == 3
RlMaxTicks == 3
RlMaxRequests == 5

\* ------------------------------------------------------- program constants
JWKS_REDIS_TTL == 3600
jwks_cache_ttl == 3600
CLAIMS_CACHE_TTL == 300
Leeway == 0

ALGORITHMS == {"RS256"}
AUDIENCE == "account"
ISSUER == "kc/realms/mala"

CLIENT_ID == "mala-client"
window_seconds == 60
DEFAULT_ROLE == "User"

\* ----------------------------------------------------------------- inputs
Callers == 1..NumCallers
SeqCallers == {1}
KeyIds == {"k1", "k2"}
Signers == KeyIds \cup {"forged"}
KeySets == {{"k1"}, {"k1", "k2"}}
Algs == {"RS256", "HS256", "none"}
ExpValues == {1, 4000}
Issuers == {ISSUER, "kc/realms/evil"}
Audiences == {AUDIENCE, "other-client"}
RoleLists == {<<>>, <<"vendor">>}
TickSteps == {1, 300, 3600}
TtlExps == {10, 100, 299, 300, 301, 4000}
HashStride == 50000000
FingerprintMod == 100000000

\* A raw bearer token: header (alg, kid), payload (sub, exp, iss, aud,
\* realm_access.roles) and the private key that produced its signature.
\* wellFormed = FALSE is a string that is not a three-segment JWT.
WellFormedTokens ==
    [wellFormed : {TRUE}, alg : Algs, kid : KeyIds, signer : Signers,
     sub : {"u1"}, exp : ExpValues, iss : Issuers, aud : Audiences,
     roles : RoleLists]

Garbage ==
    [wellFormed |-> FALSE, alg |-> "none", kid |-> "k1", signer |-> "forged",
     sub |-> "u1", exp |-> 1, iss |-> ISSUER, aud |-> AUDIENCE, roles |-> <<>>]

Tokens == WellFormedTokens \cup {Garbage}

ConcTokens ==
    {t \in WellFormedTokens :
        /\ t.alg = "RS256" /\ t.kid = "k1" /\ t.signer = "k1"
        /\ t.exp = 4000 /\ t.iss = ISSUER /\ t.aud = AUDIENCE}

NoToken == Garbage

\* tokens presented to the dependencies: audience of the backend's client,
\* subjects that are and are not integer literals, several roles
GateRoleLists == {<<>>, <<"vendor">>, <<"vendor", "admin">>}
GateSubs == {"u1", "42"}
IntLiterals == {"42"}
GateAudiences == {CLIENT_ID, "other-client"}
GateTokens ==
    [wellFormed : {TRUE}, alg : Algs, kid : KeyIds, signer : Signers,
     sub : GateSubs, exp : ExpValues, iss : Issuers, aud : GateAudiences,
     roles : GateRoleLists] \cup {Garbage}

\* the Authorization header / access_token cookie: a token, or nothing
NoCredential == [has |-> FALSE, token |-> Garbage]
Credentials == [has : {TRUE}, token : GateTokens] \cup {NoCredential}

\* request.client.host
ClientAddrs == {"10.0.0.1", "10.0.0.2"}
RlTickSteps == {1, window_seconds - 1, window_seconds + 1}

\* None for a header or cookie the request does not carry
Absent == "<absent>"
CsrfValues == {Absent, "a", "b"}
RequiredRoleSets == {{}, {"admin", "superuser"}, {DEFAULT_ROLE}}
\* requests.get(jwks_url) + raise_for_status: keys, an error status, or no
\* connection
FetchOutcomes == {"ok", "HTTPError", "ConnectionError"}

\* a request, by the dependency its endpoint declares; at is its arrival
\* time
Requests ==
    [endpoint : {"require_roles"}, required : RequiredRoleSets,
     cred : Credentials, csrf_token : {Absent}, csrf_cookie : {Absent},
     fetch : FetchOutcomes, at : {0}]
    \cup
    [endpoint : {"get_current_user"}, required : {{}},
     cred : Credentials, csrf_token : {Absent}, csrf_cookie : {Absent},
     fetch : FetchOutcomes, at : {0}]
    \cup
    [endpoint : {"get_current_user_from_cookies"}, required : {{}},
     cred : Credentials, csrf_token : CsrfValues, csrf_cookie : CsrfValues,
     fetch : FetchOutcomes, at : {0}]
    \cup
    [endpoint : {"validate_csrf"}, required : {{}},
     cred : {NoCredential}, csrf_token : CsrfValues, csrf_cookie : CsrfValues,
     fetch : {"ok"}, at : {0}]

\* requests sent through the middleware stack: no credential, a string that
\* is no token, a token that verifies
ValidGateToken ==
    [wellFormed |-> TRUE, alg |-> "RS256", kid |-> "k1", signer |-> "k1",
     sub |-> "42", exp |-> 4000, iss |-> ISSUER, aud |-> CLIENT_ID,
     roles |-> <<"vendor">>]
AppRequests ==
    {req \in Requests :
        /\ req.endpoint = "get_current_user" /\ req.fetch = "ok"
        /\ req.cred.has => req.cred.token \in {Garbage, ValidGateToken}}

NoRequest ==
    [endpoint |-> "none", required |-> {}, cred |-> NoCredential,
     csrf_token |-> Absent, csrf_cookie |-> Absent, fetch |-> "ok",
     at |-> 0]

\* ----------------------------------------------------------------- values
NoResult == [kind |-> "none"]

NoKeys == [has |-> FALSE, keys |-> {}]
SomeKeys(S) == [has |-> TRUE, keys |-> S]

NoEntry == [has |-> FALSE, keys |-> {}, expiresAt |-> 0]

NoClaimsEntry ==
    [has |-> FALSE, src |-> NoToken, claims |-> NoResult, ttl |-> 0,
     setAt |-> 0]

NoProbe == [fn |-> "none"]

HttpError(code, msg) == [kind |-> "error", status |-> code, detail |-> msg]
ErrExpired == HttpError(401, "Token has expired")
ErrCredentials == HttpError(401, "Could not validate credentials")
ErrInvalidToken == HttpError(401, "Invalid token")
ErrUnavailable == HttpError(503, "Authentication service unavailable")
ErrInternal == HttpError(500, "Internal server error")
ErrNotAuthenticated == HttpError(401, "Not authenticated")
ErrTokenMissing == HttpError(401, "Access token missing")
ErrCsrfInvalid == HttpError(403, "Invalid CSRF token")
ErrCsrfMissing == HttpError(403, "CSRF token missing")
ErrPermissions == HttpError(403, "Insufficient permissions")
ErrValidation == HttpError(500, "Internal server error during token validation")
ErrUnhandled == HttpError(500, "Internal Server Error")
CsrfOk == [kind |-> "ok"]
ErrTooManyRequests ==
    HttpError(429, "Too many requests. Please try again later.")
ErrGeneric == HttpError(500, "An internal server error occurred")

VARIABLES
    now,            \* time.time()
    ticks,          \* number of clock advances so far
    idpKeys,        \* key ids the provider currently publishes
    redisJwks,      \* Redis entry "jwks:{realm}"
    redisTok,       \* Redis entries "token:{hash}", by fingerprint
    jwks_cache,     \* KeycloakService._jwks_cache
    jwks_cache_time,\* KeycloakService._jwks_cache_time
    pc,             \* position of each decode_token coroutine
    tok,            \* its token argument
    jwks,           \* its local jwks / the result of _get_jwks_cached
    res,            \* what the call returned or raised
    startAt,        \* time at which the call was entered
    verifyAt,       \* time at which jwt.decode ran (-1: it did not run)
    fetchFailed,    \* the call's own key fetch raised httpx.HTTPError
    lastFetched,    \* last key set a fetch returned successfully
    probe,          \* a function applied to drawn inputs, and its value
    redisReliable,  \* Redis answers every call (else any call may fail)
    gatePc,         \* position of the request at the dependencies
    request,        \* the request the dependencies are resolving
    response,       \* what the dependency returned or raised
    callNext,       \* the request was passed on to its endpoint
    sessPc,         \* position of the request at the auth router
    sreq,           \* the request at the auth router and what it meets
    reply,          \* the router's response: status and Set-Cookie headers
    jar,            \* the cookies the client holds
    clients,        \* RateLimiterMiddleware.clients
    rlLog,          \* the requests the middleware has seen, oldest first
    admin_connections,        \* ConnectionManager.admin_connections
    appointment_connections,  \* ConnectionManager.appointment_connections[id]
    closed,         \* the websockets whose peer is gone: a send to them raises
    bc              \* the frame of the running broadcast coroutine

vars == <<now, ticks, idpKeys, redisJwks, redisTok,
          jwks_cache, jwks_cache_time, pc, tok, jwks, res, startAt, verifyAt,
          fetchFailed, lastFetched, probe, redisReliable, gatePc, request, response,
          callNext, sessPc, sreq, reply, jar, clients, rlLog,
          admin_connections, appointment_connections, closed, bc>>

envVars == <<now, ticks, idpKeys>>
\* the state of the websocket ConnectionManager
wsVars == <<admin_connections, appointment_connections, closed, bc>>
\* what no step of decode_token assigns
gateVars == <<gatePc, request, response, callNext>>
rlVars == <<clients, rlLog>>
sessVars == <<sessPc, sreq, reply, jar>>
memVars == <<jwks_cache, jwks_cache_time, probe, redisReliable, gateVars,
             rlVars, sessVars, wsVars>>
\* the state of the caching token validation
authVars == <<redisJwks, redisTok, jwks_cache, jwks_cache_time, pc, tok, jwks,
              res, startAt, verifyAt, fetchFailed, lastFetched,
              redisReliable>>

\* ------------------------------------------------------- pure functions
Min(a, b) == IF a <= b THEN a ELSE b

\* hash(token): a process-seeded integer; tokens are spread over the
\* integers by a code of their fields.
AlgCode(a) == CASE a = "RS256" -> 0 [] a = "HS256" -> 1 [] OTHER -> 2
SignerCode(k) == CASE k = "k1" -> 0 [] k = "k2" -> 1 [] OTHER -> 2
TokenHash(t) ==
    HashStride * ( AlgCode(t.alg) + SignerCode(t.kid) + SignerCode(t.signer)
                   + (t.exp % 7) + Len(t.roles)
                   + (IF t.iss = ISSUER THEN 0 ELSE 1)
                   + (IF t.aud = AUDIENCE THEN 0 ELSE 1)
                   + (IF t.wellFormed THEN 0 ELSE 1) )

\* str(hash(token))[-8:]: the last eight decimal digits.
Fingerprint(t) == TokenHash(t) % FingerprintMod

Fingerprints == {Fingerprint(t) : t \in Tokens}

\* jwt.get_unverified_header(token)
HeaderParses(t) == t.wellFormed

\* the loop over jwks['keys']: the key whose kid equals the header's kid
FindKey(keys, kid) ==
    IF kid \in keys THEN [found |-> TRUE, kid |-> kid]
                    ELSE [found |-> FALSE, kid |-> kid]

\* jose: the signature verifies under the public key of kid k exactly when
\* the token was signed with k's private key.
SignatureMatches(t, k) == t.signer = k

\* jwt.decode validating the registered claims before the signature
JwtDecode_claimsFirst(t, k, algorithms, audience, issuer, at) ==
    CASE ~t.wellFormed -> "JWTError"
      [] t.exp < at - Leeway -> "ExpiredSignatureError"
      [] t.aud # audience -> "JWTError"
      [] t.iss # issuer -> "JWTError"
      [] t.alg \notin algorithms -> "JWTError"
      [] ~SignatureMatches(t, k) -> "JWTError"
      [] OTHER -> "ok"

\* jwt.decode without the algorithms allow-list
JwtDecode_anyAlg(t, k, algorithms, audience, issuer, at) ==
    CASE ~t.wellFormed -> "JWTError"
      [] t.alg # "none" /\ ~SignatureMatches(t, k) -> "JWTError"
      [] t.exp < at - Leeway -> "ExpiredSignatureError"
      [] t.aud # audience -> "JWTError"
      [] t.iss # issuer -> "JWTError"
      [] OTHER -> "ok"

\* jose jwt.decode(token, key, algorithms, audience, issuer): the name of
\* the exception raised, or "ok".
JwtDecode(t, k, algorithms, audience, issuer, at) ==
    CASE ~t.wellFormed -> "JWTError"
      [] t.alg \notin algorithms -> "JWTError"
      [] ~SignatureMatches(t, k) -> "JWTError"
      [] t.exp < at - Leeway -> "ExpiredSignatureError"
      [] t.aud # audience -> "JWTError"
      [] t.iss # issuer -> "JWTError"
      [] OTHER -> "ok"

\* payload.get('realm_access', {}).get('roles', [])
ExtractRoles(t) == t.roles

\* pydantic: Config sets no option (its two lines are annotations, not
\* assignments), so a field that has an alias is populated by the alias only.
populate_by_name == FALSE

\* Claims(**kw) of a schema that allows population by field name
ClaimsInit_byName(kw) ==
    IF "sub" \in DOMAIN kw
    THEN [ok |-> TRUE,
          claims |-> [kind |-> "claims", id |-> kw.sub, roles |-> kw.roles,
                      exp |-> kw.exp, iss |-> kw.iss, aud |-> kw.aud]]
    ELSE [ok |-> TRUE,
          claims |-> [kind |-> "claims", id |-> kw.id, roles |-> kw.roles,
                      exp |-> kw.exp, iss |-> kw.iss, aud |-> kw.aud]]

\* schemas.Claims(**kw): field id has alias "sub".
ClaimsInit(kw) ==
    IF "sub" \in DOMAIN kw
    THEN [ok |-> TRUE,
          claims |-> [kind |-> "claims", id |-> kw.sub, roles |-> kw.roles,
                      exp |-> kw.exp, iss |-> kw.iss, aud |-> kw.aud]]
    ELSE IF populate_by_name /\ "id" \in DOMAIN kw
    THEN [ok |-> TRUE,
          claims |-> [kind |-> "claims", id |-> kw.id, roles |-> kw.roles,
                      exp |-> kw.exp, iss |-> kw.iss, aud |-> kw.aud]]
    ELSE [ok |-> FALSE, claims |-> NoResult]

\* the keyword arguments of the Claims(...) call in decode_token
ClaimsKwargs(t) ==
    [id |-> t.sub, roles |-> ExtractRoles(t), exp |-> t.exp, iss |-> t.iss,
     aud |-> t.aud]

\* claims.dict(), through json.dumps / json.loads: keyed by field name
ClaimsDict(cl) ==
    [id |-> cl.id, roles |-> cl.roles, exp |-> cl.exp, iss |-> cl.iss,
     aud |-> cl.aud]

\* the except clauses without the one for ExpiredSignatureError
HandleException_noExpired(exc) ==
    CASE exc = "ExpiredSignatureError" -> ErrCredentials
      [] exc = "JWTError" -> ErrCredentials
      [] exc = "httpx.HTTPError" -> ErrUnavailable
      [] OTHER -> ErrInternal

\* the except clauses of decode_token, in order
HandleException(exc) ==
    CASE exc = "ExpiredSignatureError" -> ErrExpired
      [] exc = "JWTError" -> ErrCredentials
      [] exc = "httpx.HTTPError" -> ErrUnavailable
      [] OTHER -> ErrInternal

\* the TTL decode_token passes to cache.set for a claims entry
ClaimsEntryTtl(t, at) == CLAIMS_CACHE_TTL

\* whether a Redis call goes through
RedisAnswers == IF redisReliable THEN {TRUE} ELSE BOOLEAN

\* the cache lookup that never finds the key set
CacheGetJwks_alwaysMiss(redisOk) == NoKeys

\* a get that answers an empty key set when the Redis call raises
CacheGetJwks_failureIsEmptySet(redisOk) ==
    IF redisOk
    THEN IF redisJwks.has THEN SomeKeys(redisJwks.keys) ELSE NoKeys
    ELSE SomeKeys({})

\* CacheService.get: the stored value, or None when there is no client, no
\* live entry, or the Redis call raises (redisOk = FALSE)
CacheGetJwks(redisOk) ==
    IF redisOk /\ redisJwks.has THEN SomeKeys(redisJwks.keys) ELSE NoKeys

CacheGetToken(fp, redisOk) ==
    IF redisOk /\ redisTok[fp].has THEN redisTok[fp] ELSE NoClaimsEntry

\* CacheService.set: setex, or nothing when there is no client or it raises
CacheSetJwks(keys, ttl, redisOk) ==
    IF redisOk THEN [has |-> TRUE, keys |-> keys, expiresAt |-> now + ttl]
               ELSE redisJwks

CacheSetToken(fp, t, cl, ttl, redisOk) ==
    IF redisOk
    THEN [redisTok EXCEPT ![fp] = [has |-> TRUE, src |-> t, claims |-> cl,
                                   ttl |-> ttl, setAt |-> now]]
    ELSE redisTok

\* decode_token with the claims cache.set moved to a finally clause: the
\* outcome of jwt.decode is stored whether it is claims or an error
VerifyResult_cachesFailure(t, keys, at) ==
    IF ~HeaderParses(t)
    THEN [next |-> "done", res |-> HandleException("JWTError"), decoded |-> FALSE]
    ELSE LET rsa_key == FindKey(keys, t.kid) IN
         IF ~rsa_key.found
         THEN [next |-> "done", res |-> HandleException("HTTPException"),
               decoded |-> FALSE]
         ELSE LET d == JwtDecode(t, rsa_key.kid, ALGORITHMS, AUDIENCE, ISSUER, at) IN
              IF d # "ok"
              THEN [next |-> "token_set", res |-> HandleException(d),
                    decoded |-> TRUE]
              ELSE LET cl == ClaimsInit(ClaimsKwargs(t)) IN
                   IF cl.ok
                   THEN [next |-> "token_set", res |-> cl.claims, decoded |-> TRUE]
                   ELSE [next |-> "done",
                         res |-> HandleException("ValidationError"),
                         decoded |-> TRUE]

\* decode_token from the header parse to the Claims constructor: everything
\* between two awaits.  Gives the next position and the outcome so far.
VerifyResult(t, keys, at) ==
    IF ~HeaderParses(t)
    THEN [next |-> "done", res |-> HandleException("JWTError"), decoded |-> FALSE]
    ELSE LET rsa_key == FindKey(keys, t.kid) IN
         IF ~rsa_key.found
         THEN [next |-> "done", res |-> HandleException("HTTPException"),
               decoded |-> FALSE]
         ELSE LET d == JwtDecode(t, rsa_key.kid, ALGORITHMS, AUDIENCE, ISSUER, at) IN
              IF d # "ok"
              THEN [next |-> "done", res |-> HandleException(d), decoded |-> TRUE]
              ELSE LET cl == ClaimsInit(ClaimsKwargs(t)) IN
                   IF cl.ok
                   THEN [next |-> "token_set", res |-> cl.claims, decoded |-> TRUE]
                   ELSE [next |-> "done",
                         res |-> HandleException("ValidationError"),
                         decoded |-> TRUE]

Verify(c, keys) ==
    LET v == VerifyResult(tok[c], keys, now) IN
    /\ pc' = [pc EXCEPT ![c] = v.next]
    /\ res' = [res EXCEPT ![c] = v.res]
    /\ verifyAt' = [verifyAt EXCEPT ![c] = IF v.decoded THEN now ELSE -1]

\* --------------------------------------------- backend token validation
\* the except clauses of the backend's decode_token, in order
BackendHandleException(exc) ==
    CASE exc \in {"JWTError", "ExpiredSignatureError"} -> ErrCredentials
      [] exc = "requests.HTTPError" -> ErrUnavailable
      [] OTHER -> ErrInternal

backend_populate_by_name == FALSE

\* the backend's schemas.Claims(**kw): field id has alias "sub"
BackendClaimsInit(kw) ==
    IF "sub" \in DOMAIN kw
    THEN [ok |-> TRUE,
          claims |-> [kind |-> "claims", id |-> kw.sub, roles |-> kw.roles,
                      exp |-> kw.exp, iss |-> kw.iss, aud |-> kw.aud]]
    ELSE IF backend_populate_by_name /\ "id" \in DOMAIN kw
    THEN [ok |-> TRUE,
          claims |-> [kind |-> "claims", id |-> kw.id, roles |-> kw.roles,
                      exp |-> kw.exp, iss |-> kw.iss, aud |-> kw.aud]]
    ELSE [ok |-> FALSE, claims |-> NoResult]

\* KeycloakService.decode_token of the backend: synchronous, the key set is
\* fetched on every call, nothing is cached
BackendDecodeToken(t, fetch, keys, at) ==
    IF fetch # "ok"
    THEN BackendHandleException(IF fetch = "HTTPError"
                                THEN "requests.HTTPError" ELSE fetch)
    ELSE IF ~HeaderParses(t)
    THEN BackendHandleException("JWTError")
    ELSE LET rsa_key == FindKey(keys, t.kid) IN
         IF ~rsa_key.found
         THEN BackendHandleException("HTTPException")
         ELSE LET d == JwtDecode(t, rsa_key.kid, ALGORITHMS, CLIENT_ID,
                                 ISSUER, at) IN
              IF d # "ok"
              THEN BackendHandleException(d)
              ELSE LET cl == BackendClaimsInit(ClaimsKwargs(t)) IN
                   IF cl.ok THEN cl.claims
                            ELSE BackendHandleException("ValidationError")

\* User(user_id=claims.id, ..., role=claims.roles[0] if claims.roles else
\* "User"): user_id is an int field
UserInit(cl) ==
    IF cl.id \in IntLiterals
    THEN [ok |-> TRUE,
          user |-> [kind |-> "user", keycloak_id |-> cl.id,
                    role |-> IF cl.roles # <<>> THEN cl.roles[1]
                                                ELSE DEFAULT_ROLE]]
    ELSE [ok |-> FALSE, user |-> NoResult]

\* ------------------------------------------------------------ dependencies
\* decode_token(token) -> User: HTTPException is re-raised, anything else
\* is left to the framework
decode_token(t, fetch, keys, at) ==
    LET cl == BackendDecodeToken(t, fetch, keys, at) IN
    IF cl.kind = "error" THEN cl
    ELSE LET u == UserInit(cl) IN
         IF u.ok THEN u.user ELSE ErrUnhandled

\* get_current_user(token = Depends(oauth2_scheme))
get_current_user(req, keys, at) ==
    IF ~req.cred.has THEN ErrNotAuthenticated
    ELSE decode_token(req.cred.token, req.fetch, keys, at)

\* require_roles(required_roles) -> role_checker(current_user)
role_checker(req, keys, at) ==
    LET current_user == get_current_user(req, keys, at) IN
    IF current_user.kind = "error" THEN current_user
    ELSE IF current_user.role \notin req.required THEN ErrPermissions
    ELSE current_user

get_current_user_from_cookies(req, keys, at) ==
    IF ~req.cred.has THEN ErrTokenMissing
    ELSE IF req.csrf_token # req.csrf_cookie THEN ErrCsrfInvalid
    ELSE LET cl == BackendDecodeToken(req.cred.token, req.fetch, keys, at) IN
         IF cl.kind = "error" THEN cl
         ELSE LET u == UserInit(cl) IN
              IF u.ok THEN u.user ELSE ErrValidation

validate_csrf(req) ==
    IF req.csrf_token = Absent \/ req.csrf_cookie = Absent THEN ErrCsrfMissing
    ELSE IF req.csrf_token # req.csrf_cookie THEN ErrCsrfInvalid
    ELSE CsrfOk

\* the dependency the endpoint declares, resolved for the request
Resolve(req, keys, at) ==
    CASE req.endpoint = "require_roles" -> role_checker(req, keys, at)
      [] req.endpoint = "get_current_user" -> get_current_user(req, keys, at)
      [] req.endpoint = "get_current_user_from_cookies" ->
             get_current_user_from_cookies(req, keys, at)
      [] OTHER -> validate_csrf(req)

\* ------------------------------------------------------------ rate limiter
RECURSIVE PopExpired(_, _)
\* the pruning with `if` in place of `while`: at most one timestamp is
\* dropped per request
PopExpired_onlyHead(request_times, cutoff) ==
    IF request_times # <<>> /\ Head(request_times) < cutoff
    THEN Tail(request_times)
    ELSE request_times

\* while request_times and request_times[0] < cutoff: request_times.pop(0)
PopExpired(request_times, cutoff) ==
    IF request_times # <<>> /\ Head(request_times) < cutoff
    THEN PopExpired(Tail(request_times), cutoff)
    ELSE request_times

\* the limit test admitting one request more
OverLimit_offByOne(request_times) == Len(request_times) > max_requests

\* if len(request_times) >= self.max_requests
OverLimit(request_times) == Len(request_times) >= max_requests

\* ---------------------------------------------------------------- sessions
\* the cookie names the auth router sets or deletes
CookieNames == {"access_token", "refresh_token", "id_token", "csrf_token"}

\* a field the token response does not carry
NoValue == -1

\* what the identity provider's token endpoint answers: accepted, rejected by
\* status, or unreachable, and the fields of its JSON
TokenResponses ==
    [status : {"ok", "rejected", "unreachable"},
     access_token : {"at1", "at2", Absent},
     refresh_token : {"rt1", Absent},
     expires_in : {NoValue, 300, 360},
     refresh_expires_in : {NoValue, 1800, 3600}]

\* the routes of the auth router
Routes ==
    {<<"POST", "/auth/signup">>, <<"POST", "/auth/login">>,
     <<"GET", "/auth/check-auth">>, <<"GET", "/auth/callback">>,
     <<"GET", "/auth/protected">>, <<"POST", "/auth/reset-password">>,
     <<"POST", "/auth/logout">>}

NoTokens ==
    [status |-> "ok", access_token |-> Absent, refresh_token |-> Absent,
     expires_in |-> NoValue, refresh_expires_in |-> NoValue]

\* the requests at the auth router.  db is what the user query finds (a row,
\* None, or a failing query), csrf is what secrets.token_hex(16) returns
SessRequests ==
    [method : {"POST"}, path : {"/auth/login"}, idp : TokenResponses,
     db : {"found", "none", "error"}, csrf : {"c1", "c2"}, code : {Absent},
     cookies : {{}}]
    \union
    [method : {"POST"}, path : {"/auth/logout"}, idp : {NoTokens},
     db : {"found"}, csrf : {"c1"}, code : {Absent}, cookies : {{}}]
    \union
    [method : {"POST"}, path : {"/auth/refresh-token"},
     idp : {t \in TokenResponses : t.refresh_expires_in = NoValue},
     db : {"found"}, csrf : {"c1"}, code : {Absent}, cookies : {{}}]
    \union
    [method : {"GET"}, path : {"/auth/callback"},
     idp : {t \in TokenResponses : /\ t.refresh_expires_in = NoValue
                                   /\ t.expires_in = NoValue},
     db : {"found"}, csrf : {"c1"}, code : {Absent, "code1"}, cookies : {{}}]

NoSessRequest ==
    [method |-> "", path |-> "", idp |-> NoTokens, db |-> "found",
     csrf |-> "c1", code |-> Absent, cookies |-> {}]

NoCookie ==
    [present |-> FALSE, value |-> "", httponly |-> FALSE, secure |-> FALSE,
     samesite |-> "", max_age |-> 0, path |-> ""]

\* response.set_cookie(key, value, httponly, secure, samesite, max_age, path)
set_cookie(v, http, sec, site, age, pth) ==
    [kind |-> "set",
     cookie |-> [present |-> TRUE, value |-> v, httponly |-> http,
                 secure |-> sec, samesite |-> site, max_age |-> age,
                 path |-> pth]]

\* response.delete_cookie(key, path)
delete_cookie(pth) ==
    [kind |-> "delete", cookie |-> [NoCookie EXCEPT !.path = pth]]

NoHeader == [kind |-> "none", cookie |-> NoCookie]

\* a response of the router: its status, its Set-Cookie headers, and the
\* Location of a redirect
Reply(code, headers, loc) ==
    [status |-> code, set |-> headers, location |-> loc]

\* raise HTTPException: the cookies set on the injected Response are lost
Raise(code) == Reply(code, [n \in CookieNames |-> NoHeader], "")

AuthenticateUser_noRaiseForStatus(idp) ==
    IF idp.status = "unreachable"
    THEN [kind |-> "error", status |-> 401]
    ELSE IF idp.status = "rejected"
            \/ idp.access_token = Absent \/ idp.refresh_token = Absent
         THEN [kind |-> "raise", status |-> 0]
         ELSE [kind |-> "tokens", status |-> 200]

\* KeycloakService.authenticate_user: the token dict, HTTPException(401) on
\* httpx.HTTPError, KeyError when the answer lacks a token
authenticate_user(idp) ==
    IF idp.status # "ok"
    THEN [kind |-> "error", status |-> 401]
    ELSE IF idp.access_token = Absent \/ idp.refresh_token = Absent
         THEN [kind |-> "raise", status |-> 0]
         ELSE [kind |-> "tokens", status |-> 200]

\* login's access_token cookie
AccessCookie(tokens) ==
    set_cookie(tokens.access_token, TRUE, FALSE, "Lax",
               tokens.expires_in, "/")

RefreshCookie_accessLifetime(tokens) ==
    IF tokens.refresh_token # Absent /\ tokens.refresh_token # ""
    THEN set_cookie(tokens.refresh_token, TRUE, FALSE, "Lax",
                    tokens.expires_in, "/")
    ELSE NoHeader

\* login's refresh_token cookie, set if the dict carries a refresh token
RefreshCookie(tokens) ==
    IF tokens.refresh_token # Absent /\ tokens.refresh_token # ""
    THEN set_cookie(tokens.refresh_token, TRUE, FALSE, "Lax",
                    tokens.refresh_expires_in, "/")
    ELSE NoHeader

CsrfCookie_httpOnly(tokens, csrf_token) ==
    set_cookie(csrf_token, TRUE, FALSE, "Strict",
               tokens.expires_in, "/")

\* login's csrf_token cookie
CsrfCookie(tokens, csrf_token) ==
    set_cookie(csrf_token, FALSE, FALSE, "Strict",
               tokens.expires_in, "/")

\* POST /auth/login
login(req) ==
    LET auth == authenticate_user(req.idp)
        \* the dict authenticate_user returns, its defaults filled in
        tokens ==
            [access_token |-> req.idp.access_token,
             refresh_token |-> req.idp.refresh_token,
             expires_in |-> IF req.idp.expires_in = NoValue
                            THEN 300 ELSE req.idp.expires_in,
             refresh_expires_in |-> IF req.idp.refresh_expires_in = NoValue
                                    THEN 1800 ELSE req.idp.refresh_expires_in]
    IN  IF auth.kind = "error" THEN Raise(auth.status)
        ELSE IF auth.kind = "raise" THEN Raise(500)
        ELSE IF req.db = "error" THEN Raise(500)
        ELSE IF req.db = "none" THEN Raise(404)
        ELSE Reply(200,
                   [n \in CookieNames |->
                      CASE n = "access_token" -> AccessCookie(tokens)
                        [] n = "refresh_token" -> RefreshCookie(tokens)
                        [] n = "csrf_token" ->
                             CsrfCookie(tokens, req.csrf)
                        [] OTHER -> NoHeader],
                   "")

logout_keepsCsrf(req) ==
    Reply(200,
          [n \in CookieNames |->
             IF n = "csrf_token" THEN NoHeader ELSE delete_cookie("/")],
          "")

\* POST /auth/logout
logout(req) ==
    Reply(200, [n \in CookieNames |-> delete_cookie("/")], "")

\* GET /auth/callback
callback(req) ==
    IF req.code = Absent THEN Raise(400)
    ELSE IF req.idp.status = "unreachable" THEN Raise(400)
    ELSE IF req.idp.status # "ok" THEN Raise(400)
    ELSE IF req.idp.access_token = Absent THEN Raise(400)
    ELSE Reply(307, [n \in CookieNames |-> NoHeader],
               "token=" \o req.idp.access_token)

\* the router answers a request: the handler of the matching route, 404 when
\* no route matches
Route(req) ==
    IF <<req.method, req.path>> \notin Routes THEN Raise(404)
    ELSE CASE req.path = "/auth/login" -> login(req)
           [] req.path = "/auth/logout" -> logout(req)
           [] req.path = "/auth/callback" -> callback(req)
           [] OTHER -> Raise(404)

\* the client stores the cookies of a response: a set cookie replaces the one
\* of its name, a deleted cookie removes the one of its name and path
StoreCookies(cookies, headers) ==
    [n \in CookieNames |->
       CASE headers[n].kind = "set" -> headers[n].cookie
         [] headers[n].kind = "delete" ->
              IF cookies[n].present /\ cookies[n].path = headers[n].cookie.path
              THEN NoCookie ELSE cookies[n]
         [] OTHER -> cookies[n]]

\* ------------------------------------------------------------------ Init
InitWith(reliable) ==
    /\ redisReliable = reliable
    /\ now = 0
    /\ ticks = 0
    /\ idpKeys = {"k1"}
    /\ redisJwks = NoEntry
    /\ redisTok = [fp \in Fingerprints |-> NoClaimsEntry]
    /\ jwks_cache = NoKeys
    /\ jwks_cache_time = 0
    /\ pc = [c \in Callers |-> "idle"]
    /\ tok = [c \in Callers |-> NoToken]
    /\ jwks = [c \in Callers |-> NoKeys]
    /\ res = [c \in Callers |-> NoResult]
    /\ startAt = [c \in Callers |-> 0]
    /\ verifyAt = [c \in Callers |-> -1]
    /\ fetchFailed = [c \in Callers |-> FALSE]
    /\ lastFetched = NoKeys
    /\ probe = NoProbe
    /\ gatePc = "idle"
    /\ request = NoRequest
    /\ response = NoResult
    /\ callNext = FALSE
    /\ sessPc = "idle"
    /\ sreq = NoSessRequest
    /\ reply = Raise(0)     \* no response yet
    /\ jar = [n \in CookieNames |-> NoCookie]
    /\ clients = [a \in ClientAddrs |-> <<>>]
    /\ rlLog = <<>>
    /\ admin_connections = <<>>
    /\ appointment_connections = <<>>
    /\ closed = {}
    /\ bc = [pc |-> "idle", connection_type |-> "admin", connections |-> <<>>,
             i |-> 0, connection |-> "none", broken_connections |-> <<>>,
             sent |-> {}, stayed |-> {}]

\* Redis may be down or fail at any call
Init == InitWith(FALSE)

\* Redis is up and answers every call
InitReliable == InitWith(TRUE)

\* ------------------------------------------------------------ decode_token
\* a request enters decode_token(token) and awaits cache.get(token key)
Begin(c, pool) ==
    /\ pc[c] = "idle"
    /\ \E t \in pool : tok' = [tok EXCEPT ![c] = t]
    /\ pc' = [pc EXCEPT ![c] = "token_get"]
    /\ startAt' = [startAt EXCEPT ![c] = now]
    /\ UNCHANGED <<envVars, memVars, redisJwks, redisTok, jwks, res, verifyAt,
                   fetchFailed, lastFetched>>

\* cache.get(token key) answers: a hit rebuilds Claims from the cached
\* dict; a miss goes on to await cache.get(jwks key) in _get_jwks_cached.
TokenCacheGet(c) ==
    /\ pc[c] = "token_get"
    /\ \E redisOk \in RedisAnswers :
       LET cached == CacheGetToken(Fingerprint(tok[c]), redisOk) IN
       IF cached.has
       THEN LET cl == ClaimsInit(ClaimsDict(cached.claims)) IN
            /\ res' = [res EXCEPT ![c] =
                          IF cl.ok THEN cl.claims
                                   ELSE HandleException("ValidationError")]
            /\ pc' = [pc EXCEPT ![c] = "done"]
       ELSE /\ pc' = [pc EXCEPT ![c] = "jwks_get"]
            /\ res' = res
    /\ UNCHANGED <<envVars, memVars, redisJwks, redisTok, tok, jwks, startAt,
                   verifyAt, fetchFailed, lastFetched>>

\* cache.get(jwks key) answers: a hit returns the set and verification runs;
\* a miss sends the GET to the certs endpoint.
JwksCacheGet(c) ==
    /\ pc[c] = "jwks_get"
    /\ \E redisOk \in RedisAnswers :
       LET cached == CacheGetJwks(redisOk) IN
       IF cached.has
       THEN /\ jwks' = [jwks EXCEPT ![c] = cached]
            /\ Verify(c, cached.keys)
       ELSE /\ pc' = [pc EXCEPT ![c] = "fetching"]
            /\ UNCHANGED <<jwks, res, verifyAt>>
    /\ UNCHANGED <<envVars, memVars, redisJwks, redisTok, tok, startAt,
                   fetchFailed, lastFetched>>

\* the GET answers or raises httpx.HTTPError (unreachable, timeout, status)
FetchResponse(c) ==
    /\ pc[c] = "fetching"
    /\ \E endpointUp \in BOOLEAN :
       IF endpointUp
       THEN /\ jwks' = [jwks EXCEPT ![c] = SomeKeys(idpKeys)]
            /\ lastFetched' = SomeKeys(idpKeys)
            /\ pc' = [pc EXCEPT ![c] = "jwks_set"]
            /\ UNCHANGED <<res, verifyAt, fetchFailed>>
       ELSE /\ fetchFailed' = [fetchFailed EXCEPT ![c] = TRUE]
            /\ lastFetched' = lastFetched
            /\ IF jwks_cache.has /\ now - jwks_cache_time < jwks_cache_ttl
               THEN /\ jwks' = [jwks EXCEPT ![c] = jwks_cache]
                    /\ Verify(c, jwks_cache.keys)
               ELSE /\ jwks' = [jwks EXCEPT ![c] = NoKeys]
                    /\ res' = [res EXCEPT ![c] = HandleException("HTTPException")]
                    /\ pc' = [pc EXCEPT ![c] = "done"]
                    /\ verifyAt' = verifyAt
    /\ UNCHANGED <<envVars, memVars, redisJwks, redisTok, tok, startAt>>

\* an awaited cache.set completes.  After cache.set(jwks key, jwks, ttl=3600)
\* _get_jwks_cached returns and verification runs; after
\* cache.set(token key, claims.dict(), ttl=300) the claims are returned.
CacheSetReturns(c) ==
    /\ pc[c] \in {"jwks_set", "token_set"}
    /\ \E redisOk \in RedisAnswers :
         IF pc[c] = "jwks_set"
         THEN /\ redisJwks' = CacheSetJwks(jwks[c].keys, JWKS_REDIS_TTL, redisOk)
              /\ Verify(c, jwks[c].keys)
              /\ redisTok' = redisTok
         ELSE /\ redisTok' = CacheSetToken(Fingerprint(tok[c]), tok[c], res[c],
                                           ClaimsEntryTtl(tok[c], now), redisOk)
              /\ pc' = [pc EXCEPT ![c] = "done"]
              /\ UNCHANGED <<redisJwks, res, verifyAt>>
    /\ UNCHANGED <<envVars, memVars, tok, jwks, startAt, fetchFailed,
                   lastFetched>>

\* the caller takes the result; the coroutine is gone
Return(c) ==
    /\ pc[c] = "done"
    /\ pc' = [pc EXCEPT ![c] = "idle"]
    /\ tok' = [tok EXCEPT ![c] = NoToken]
    /\ jwks' = [jwks EXCEPT ![c] = NoKeys]
    /\ res' = [res EXCEPT ![c] = NoResult]
    /\ startAt' = [startAt EXCEPT ![c] = 0]
    /\ verifyAt' = [verifyAt EXCEPT ![c] = -1]
    /\ fetchFailed' = [fetchFailed EXCEPT ![c] = FALSE]
    /\ UNCHANGED <<envVars, memVars, redisJwks, redisTok, lastFetched>>

\* ------------------------------------------------------------ environment
\* the clock advances; Redis drops the entries whose TTL has run out
Tick ==
    /\ ticks < MaxTicks
    /\ \E d \in TickSteps :
         /\ now' = now + d
         /\ redisJwks' = IF redisJwks.has /\ redisJwks.expiresAt <= now + d
                         THEN NoEntry ELSE redisJwks
         /\ redisTok' = [fp \in Fingerprints |->
                            IF redisTok[fp].has
                               /\ redisTok[fp].setAt + redisTok[fp].ttl <= now + d
                            THEN NoClaimsEntry ELSE redisTok[fp]]
    /\ ticks' = ticks + 1
    /\ UNCHANGED <<idpKeys, memVars, pc, tok, jwks, res,
                   startAt, verifyAt, fetchFailed, lastFetched>>

\* the provider publishes another key set
IdpRotate ==
    /\ \E S \in KeySets \ {idpKeys} : idpKeys' = S
    /\ UNCHANGED <<now, ticks, memVars, redisJwks, redisTok,
                   pc, tok, jwks, res, startAt, verifyAt, fetchFailed,
                   lastFetched>>

Environment == Tick \/ IdpRotate

\* ------------------------------------------------------------ dependencies
\* a request reaches an endpoint and its dependency is resolved: the
\* dependencies and the backend's decode_token are synchronous, the key
\* fetch included
GateRequest ==
    /\ gatePc = "idle"
    /\ \E req \in Requests :
         /\ request' = [req EXCEPT !.at = now]
         /\ response' = Resolve(req, idpKeys, now)
    /\ gatePc' = "done"
    /\ callNext' = TRUE
    /\ UNCHANGED <<envVars, authVars, wsVars, probe, rlVars, sessVars>>

\* the response is sent
GateReturn ==
    /\ gatePc = "done"
    /\ gatePc' = "idle"
    /\ request' = NoRequest
    /\ response' = NoResult
    /\ callNext' = FALSE
    /\ UNCHANGED <<envVars, authVars, wsVars, probe, rlVars, sessVars>>

\* ------------------------------------------------------------ rate limiter
\* dispatch over one list shared by all addresses in place of
\* self.clients[client_ip]
Admit_sharedList(client_ip) ==
    /\ Len(rlLog) < RlMaxRequests
    /\ LET current_time == now
           shared == CHOOSE addr \in ClientAddrs : TRUE
           request_times == PopExpired(clients[shared],
                                       current_time - window_seconds)
       IN /\ clients' = [clients EXCEPT ![shared] =
                             IF OverLimit(request_times) THEN request_times
                             ELSE Append(request_times, current_time)]
          /\ rlLog' = Append(rlLog, [addr |-> client_ip, at |-> current_time,
                                     accepted |-> ~OverLimit(request_times)])

\* dispatch with the append moved before the test: a rejected request leaves
\* its timestamp in the list
Admit_recordsRejected(client_ip) ==
    /\ Len(rlLog) < RlMaxRequests
    /\ LET current_time == now
           request_times == PopExpired(clients[client_ip],
                                       current_time - window_seconds)
       IN /\ clients' = [clients EXCEPT ![client_ip] =
                             Append(request_times, current_time)]
          /\ rlLog' = Append(rlLog, [addr |-> client_ip, at |-> current_time,
                                     accepted |-> ~OverLimit(request_times)])

\* dispatch with an await between the test and the append: the test saw the
\* list as it was before the append of a request that ran in between
Admit_staleTest(client_ip) ==
    /\ Len(rlLog) < RlMaxRequests
    /\ LET current_time == now
           request_times == PopExpired(clients[client_ip],
                                       current_time - window_seconds)
           seen == IF request_times = <<>> THEN <<>>
                   ELSE SubSeq(request_times, 1, Len(request_times) - 1)
       IN IF OverLimit(seen)
          THEN /\ clients' = [clients EXCEPT ![client_ip] = request_times]
               /\ rlLog' = Append(rlLog, [addr |-> client_ip,
                                          at |-> current_time,
                                          accepted |-> FALSE])
          ELSE /\ clients' = [clients EXCEPT ![client_ip] =
                                  Append(request_times, current_time)]
               /\ rlLog' = Append(rlLog, [addr |-> client_ip,
                                          at |-> current_time,
                                          accepted |-> TRUE])

\* RateLimiterMiddleware.dispatch up to call_next: prune, test, append, with
\* no await in between
Admit(client_ip) ==
    /\ Len(rlLog) < RlMaxRequests
    /\ LET current_time == now
           request_times == PopExpired(clients[client_ip],
                                       current_time - window_seconds)
       IN IF OverLimit(request_times)
          THEN /\ clients' = [clients EXCEPT ![client_ip] = request_times]
               /\ rlLog' = Append(rlLog, [addr |-> client_ip,
                                          at |-> current_time,
                                          accepted |-> FALSE])
          ELSE /\ clients' = [clients EXCEPT ![client_ip] =
                                  Append(request_times, current_time)]
               /\ rlLog' = Append(rlLog, [addr |-> client_ip,
                                          at |-> current_time,
                                          accepted |-> TRUE])

dispatch(client_ip) ==
    /\ Admit(client_ip)
    /\ UNCHANGED <<envVars, authVars, wsVars, probe, gateVars, sessVars>>

\* an exception that leaves the outermost user middleware reaches
\* ServerErrorMiddleware, which answers with the handler registered for
\* Exception; the handler registered for HTTPException sits inside the stack
ServerErrorMiddleware(exc) == ErrGeneric

\* a request through the application: RateLimiterMiddleware is added last and
\* so runs first; call_next hands the request on to its endpoint, whose
\* dependency is resolved
AppRequest(client_ip) ==
    /\ gatePc = "idle"
    /\ Admit(client_ip)
    /\ \E req \in AppRequests :
         /\ request' = [req EXCEPT !.at = now]
         /\ IF OverLimit(PopExpired(clients[client_ip], now - window_seconds))
            THEN /\ response' = ServerErrorMiddleware(ErrTooManyRequests)
                 /\ callNext' = FALSE
            ELSE /\ response' = Resolve(req, idpKeys, now)
                 /\ callNext' = TRUE
    /\ gatePc' = "done"
    /\ UNCHANGED <<envVars, authVars, wsVars, probe, sessVars>>

\* time() advances between two requests
RlTick ==
    /\ ticks < RlMaxTicks
    /\ \E d \in RlTickSteps : now' = now + d
    /\ ticks' = ticks + 1
    /\ UNCHANGED <<idpKeys, authVars, wsVars, probe, gateVars, rlVars, sessVars>>

\* ---------------------------------------------------------------- sessions
\* a request at the auth router, sent with the names of the cookies the client
\* holds, is answered and the client stores the cookies of the response
SessRequest ==
    /\ sessPc = "idle"
    /\ \E req \in SessRequests :
         /\ sreq' = [req EXCEPT
                        !.cookies = {n \in CookieNames : jar[n].present}]
         /\ reply' = Route(req)
         /\ jar' = StoreCookies(jar, Route(req).set)
    /\ sessPc' = "done"
    /\ UNCHANGED <<envVars, authVars, wsVars, probe, gateVars, rlVars>>

SessReturn ==
    /\ sessPc = "done"
    /\ sessPc' = "idle"
    /\ sreq' = NoSessRequest
    /\ reply' = Raise(0)
    /\ UNCHANGED <<envVars, authVars, wsVars, probe, gateVars, rlVars, jar>>

\* a cookie reaches its max_age and the client drops it
CookieExpires ==
    /\ sessPc = "idle"
    /\ \E n \in CookieNames :
         /\ jar[n].present
         /\ jar' = [jar EXCEPT ![n] = NoCookie]
    /\ UNCHANGED <<envVars, authVars, wsVars, probe, gateVars, rlVars, sessPc, sreq,
                   reply>>

\* the client sends a request to an endpoint that depends on
\* get_current_user_from_cookies or validate_csrf: the request carries the
\* client's cookies under their names, and in the csrf-token header either
\* nothing or the value of the csrf_token cookie, which scripts can read.
\* The dependencies read the parameters access_token = Cookie(None),
\* csrf_token = Header(None) and csrf_cookie = Cookie(None): the cookie named
\* access_token, the header csrf-token and the cookie named csrf_cookie; none
\* of them reads the request's method.
CookieRequest ==
    /\ sessPc = "idle"
    /\ gatePc = "idle"
    /\ LET Cookie(n) == IF n \in CookieNames /\ jar[n].present
                        THEN jar[n].value ELSE Absent
       IN \E e \in {"get_current_user_from_cookies", "validate_csrf"},
             h \in {Absent, Cookie("csrf_token")}, m \in {"GET", "POST"} :
            LET req == [endpoint |-> e, method |-> m, required |-> {},
                        cred |-> IF Cookie("access_token") = Absent
                                 THEN NoCredential
                                 ELSE [has |-> TRUE, token |-> ValidGateToken],
                        csrf_token |-> h,
                        csrf_cookie |-> Cookie("csrf_cookie"),
                        fetch |-> "ok", at |-> now]
            IN /\ request' = req
               /\ response' = Resolve(req, idpKeys, now)
    /\ gatePc' = "done"
    /\ callNext' = TRUE
    /\ UNCHANGED <<envVars, authVars, wsVars, probe, rlVars, sessVars>>

\* ------------------------------------------------------ ConnectionManager
\* connect(websocket, connection_type): after the awaited accept the socket
\* is appended to admin_connections or to appointment_connections[id]
connect(websocket, connection_type) ==
    /\ websocket \notin closed
    /\ \A k \in 1..Len(admin_connections) : admin_connections[k] # websocket
    /\ \A k \in 1..Len(appointment_connections) :
           appointment_connections[k] # websocket
    /\ IF connection_type = "admin"
       THEN /\ admin_connections' = Append(admin_connections, websocket)
            /\ UNCHANGED appointment_connections
       ELSE /\ appointment_connections' =
                   Append(appointment_connections, websocket)
            /\ UNCHANGED admin_connections
    /\ UNCHANGED <<closed, bc>>
    /\ UNCHANGED <<envVars, authVars, probe, gateVars, rlVars, sessVars>>

\* the endpoint's handler on WebSocketDisconnect: the peer is gone and
\* disconnect(websocket, connection_type) removes the socket from its list
\* (an emptied appointment list is deleted: the empty sequence here)
disconnect(websocket, connection_type) ==
    /\ IF connection_type = "admin"
       THEN /\ \E k \in 1..Len(admin_connections) :
                   admin_connections[k] = websocket
            /\ admin_connections' =
                   SelectSeq(admin_connections, LAMBDA w : w # websocket)
            /\ UNCHANGED appointment_connections
       ELSE /\ \E k \in 1..Len(appointment_connections) :
                   appointment_connections[k] = websocket
            /\ appointment_connections' =
                   SelectSeq(appointment_connections, LAMBDA w : w # websocket)
            /\ UNCHANGED admin_connections
    /\ closed' = closed \cup {websocket}
    /\ bc' = [bc EXCEPT !.stayed = @ \ {websocket}]
    /\ UNCHANGED <<envVars, authVars, probe, gateVars, rlVars, sessVars>>

\* broadcast(message, "admin") and broadcast_to_appointment(id, message) up
\* to the first awaited send_text: broadcast iterates over the registry's
\* own list, broadcast_to_appointment over a copy of it
BroadcastStart(connection_type) ==
    LET registry == IF connection_type = "admin"
                    THEN admin_connections ELSE appointment_connections
    IN  /\ bc.pc \in {"idle", "done"}
        /\ bc' = [pc |-> IF registry = <<>> THEN "done" ELSE "sending",
                  connection_type |-> connection_type,
                  connections |-> IF connection_type = "admin"
                                  THEN <<>> ELSE registry,
                  i |-> IF registry = <<>> THEN 0 ELSE 1,
                  connection |-> IF registry = <<>> THEN "none"
                                 ELSE registry[1],
                  broken_connections |-> <<>>,
                  sent |-> {},
                  stayed |-> {registry[k] : k \in 1..Len(registry)}]
        /\ UNCHANGED <<admin_connections, appointment_connections, closed>>
        /\ UNCHANGED <<envVars, authVars, probe, gateVars, rlVars, sessVars>>

\* the awaited send_text returns or raises; the loop takes the next element
\* of the list it iterates over, or ends and disconnects the broken sockets
BroadcastSend ==
    LET connections == IF bc.connection_type = "admin"
                       THEN admin_connections ELSE bc.connections
        connection == bc.connection
    IN  /\ bc.pc = "sending"
        /\ \E raises \in {connection \in closed, TRUE} :
             LET broken == IF raises
                           THEN Append(bc.broken_connections, connection)
                           ELSE bc.broken_connections
                 isBroken(w) == \E k \in 1..Len(broken) : broken[k] = w
                 sent == IF raises THEN bc.sent ELSE bc.sent \cup {connection}
             IN  /\ closed' = IF raises THEN closed \cup {connection}
                              ELSE closed
                 /\ IF bc.i < Len(connections)
                    THEN /\ bc' = [bc EXCEPT !.i = @ + 1,
                                             !.connection =
                                                 connections[bc.i + 1],
                                             !.broken_connections = broken,
                                             !.sent = sent]
                         /\ UNCHANGED <<admin_connections,
                                        appointment_connections>>
                    ELSE /\ bc' = [bc EXCEPT !.pc = "done",
                                             !.broken_connections = broken,
                                             !.sent = sent]
                         /\ IF bc.connection_type = "admin"
                            THEN /\ admin_connections' =
                                        SelectSeq(admin_connections,
                                                  LAMBDA w : ~isBroken(w))
                                 /\ UNCHANGED appointment_connections
                            ELSE /\ appointment_connections' =
                                        SelectSeq(appointment_connections,
                                                  LAMBDA w : ~isBroken(w))
                                 /\ UNCHANGED admin_connections
        /\ UNCHANGED <<envVars, authVars, probe, gateVars, rlVars, sessVars>>

\* --------------------------------------------------------- specifications
\* one request at a time, any token
Next ==
    \/ \E c \in SeqCallers :
         \/ Begin(c, Tokens)
         \/ TokenCacheGet(c)
         \/ JwksCacheGet(c)
         \/ FetchResponse(c)
         \/ CacheSetReturns(c)
         \/ Return(c)
    \/ Environment

Spec == Init /\ [][Next]_vars

\* concurrent requests carrying valid tokens, within one second
NextConc ==
    \E c \in Callers :
       \/ Begin(c, ConcTokens)
       \/ TokenCacheGet(c)
       \/ JwksCacheGet(c)
       \/ FetchResponse(c)
       \/ CacheSetReturns(c)
       \/ Return(c)

SpecConc == Init /\ [][NextConc]_vars

\* concurrent requests over a Redis that answers every call, their tokens
\* signed by either key, while the provider changes its key set
NextRefresh ==
    \/ \E c \in Callers :
          \/ Begin(c, {t \in WellFormedTokens :
                          /\ t.alg = "RS256" /\ t.signer = t.kid
                          /\ t.exp = 4000 /\ t.iss = ISSUER
                          /\ t.aud = AUDIENCE /\ t.roles = <<>>})
          \/ TokenCacheGet(c)
          \/ JwksCacheGet(c)
          \/ FetchResponse(c)
          \/ CacheSetReturns(c)
          \/ Return(c)
    \/ IdpRotate

SpecRefresh == InitReliable /\ [][NextRefresh]_vars

\* the TTL expression of the claims cache.set, over tokens of every remaining
\* lifetime
ProbeClaimsEntryTtl ==
    /\ \E t \in ConcTokens, e \in TtlExps, at \in 0..MaxProbeTime :
         /\ at < e
         /\ probe' = [fn |-> "ClaimsEntryTtl", exp |-> e, at |-> at,
                      out |-> ClaimsEntryTtl([t EXCEPT !.exp = e], at)]
    /\ UNCHANGED <<envVars, authVars, wsVars, gateVars, rlVars, sessVars>>

NextTtl == ProbeClaimsEntryTtl

SpecTtl == Init /\ [][NextTtl]_vars

\* one request at a time, any token, over a Redis that answers every call
SpecReliable == InitReliable /\ [][Next]_vars

\* requests at the dependencies, one at a time, the clock advancing between
\* them
NextGate == GateRequest \/ GateReturn \/ (gatePc = "idle" /\ Tick)

SpecGate == Init /\ [][NextGate]_vars

\* requests through the rate limiter, as the clock advances
NextRate == (\E client_ip \in ClientAddrs : dispatch(client_ip)) \/ RlTick

SpecRate == Init /\ [][NextRate]_vars

\* requests through the rate limiter and on to their endpoints
NextApp ==
    \/ \E client_ip \in ClientAddrs : AppRequest(client_ip)
    \/ GateReturn
    \/ (gatePc = "idle" /\ RlTick)

SpecApp == Init /\ [][NextApp]_vars

\* requests of one client at the auth router and at endpoints behind the
\* cookie dependencies, one at a time, its cookies expiring between them
NextSession ==
    \/ gatePc = "idle" /\ SessRequest
    \/ SessReturn
    \/ gatePc = "idle" /\ CookieExpires
    \/ CookieRequest
    \/ GateReturn

SpecSession == Init /\ [][NextSession]_vars

TypeOK ==
    /\ now \in Nat
    /\ pc \in [Callers -> {"idle", "token_get", "jwks_get", "fetching",
                           "jwks_set", "token_set", "done"}]
    /\ tok \in [Callers -> Tokens]

\* the websocket endpoints: sockets connect and leave while messages are
\* broadcast to the admins and to the appointment's room
NextWs ==
    \/ \E w \in {"w1", "w2", "w3"}, t \in {"admin", "appointment"} :
           connect(w, t)
    \/ \E w \in {"w1", "w2", "w3"}, t \in {"admin", "appointment"} :
           disconnect(w, t)
    \/ \E t \in {"admin", "appointment"} : BroadcastStart(t)
    \/ BroadcastSend

SpecWs == Init /\ [][NextWs]_vars

\* ------------------------------------------------------------- properties
Done(c) == pc[c] = "done"

\* jwt.decode ran in this call: the token was not served from the claims
\* cache, a key set was obtained and it holds the header's kid
Decoded(c) == Done(c) /\ verifyAt[c] >= 0

\* the signature is the one of the key the header names, under a pinned alg
SignedByNamedKey(t) ==
    t.wellFormed /\ t.alg \in ALGORITHMS /\ SignatureMatches(t, t.kid)

\* C1: once a key set has been fetched, a get_keys call whose own fetch
\* fails returns that previously fetched set (stale fallback), also after
\* the cached copy's TTL has run out.
CE_C1_StaleFallback ==
    \A c \in Callers :
        (fetchFailed[c] /\ lastFetched.has) => jwks[c] = lastFetched

\* C2: concurrent callers that miss the key-set cache share one outbound
\* fetch: at most one fetch is in flight at any time.
CE_C2_SingleFlight ==
    Cardinality({c \in Callers : pc[c] = "fetching"}) <= 1

\* C3: a token whose kid is in no key of the key set obtained is answered
\* with the 401 bad-credential outcome.
CE_C3_UnknownKidIs401 ==
    \A c \in Callers :
        (Done(c) /\ jwks[c].has /\ tok[c].wellFormed
           /\ tok[c].kid \notin jwks[c].keys)
        => (res[c].kind = "error" /\ res[c].status = 401)

Thm_C6_ExpiredOutcome ==
    \A c \in Callers :
        Done(c) =>
          /\ ( Decoded(c) /\ SignedByNamedKey(tok[c])
                 /\ tok[c].exp < verifyAt[c] - Leeway )
             <=> res[c] = ErrExpired
          /\ ( Decoded(c) /\ ~SignedByNamedKey(tok[c]) ) => res[c] # ErrExpired

Wit_C6_ExpiredByOneSecond ==
    \E c \in Callers :
        /\ Decoded(c) /\ SignedByNamedKey(tok[c])
        /\ tok[c].exp = verifyAt[c] - Leeway - 1
        /\ res[c] = ErrExpired

\* C7: a well-formed, unexpired token with the configured issuer and
\* audience, signed by a key of the key set obtained, verifies and the claims
\* returned carry the token's subject, issuer and audience.
CE_C7_ValidTokenVerifies ==
    \A c \in Callers :
        ( Decoded(c) /\ SignedByNamedKey(tok[c])
            /\ tok[c].exp >= verifyAt[c] - Leeway
            /\ tok[c].iss = ISSUER /\ tok[c].aud = AUDIENCE )
        => ( /\ res[c].kind = "claims"
             /\ res[c].id = tok[c].sub
             /\ res[c].iss = tok[c].iss
             /\ res[c].aud = tok[c].aud )

\* C8: a validly signed, unexpired token whose iss or aud is not the
\* configured one is answered with an outcome other than the one given to
\* malformed and badly signed tokens.
CE_C8_UntrustedIsDistinct ==
    \A c \in Callers :
        ( Decoded(c) /\ SignedByNamedKey(tok[c])
            /\ tok[c].exp >= verifyAt[c] - Leeway
            /\ (tok[c].iss # ISSUER \/ tok[c].aud # AUDIENCE) )
        => ( res[c].kind = "error" /\ res[c] # ErrCredentials )

\* C9: a token whose signature does not verify under the key its header
\* names gets the bad-credential answer whatever its exp, iss, aud and
\* roles; it never yields claims and no claims-cache entry comes from it.
Thm_C9_SignatureBeforeClaims ==
    /\ \A c \in Callers :
          ( Done(c) /\ tok[c].wellFormed
              /\ ~SignatureMatches(tok[c], tok[c].kid) )
          => ( /\ res[c].kind = "error"
               /\ Decoded(c) => res[c] = ErrCredentials )
    /\ \A fp \in Fingerprints :
          redisTok[fp].has => SignatureMatches(redisTok[fp].src,
                                               redisTok[fp].src.kid)

Wit_C9_BadSignatureBadPayload ==
    \E c \in Callers :
        /\ Decoded(c) /\ tok[c].alg \in ALGORITHMS
        /\ ~SignatureMatches(tok[c], tok[c].kid)
        /\ tok[c].exp < verifyAt[c] /\ tok[c].iss # ISSUER
        /\ tok[c].aud # AUDIENCE
        /\ res[c] = ErrCredentials

\* C10: a token whose header names an algorithm outside ALGORITHMS,
\* "none" included, is rejected whatever its payload, its signature and the
\* keys of the key set: with the bad-credential answer once jwt.decode runs.
Thm_C10_AlgorithmPinned ==
    \A c \in Callers :
        ( Done(c) /\ tok[c].wellFormed /\ tok[c].alg \notin ALGORITHMS )
        => ( /\ res[c].kind = "error"
             /\ Decoded(c) => res[c] = ErrCredentials )

Wit_C10_AlgNoneOtherwiseValid ==
    \E c \in Callers :
        /\ Decoded(c) /\ tok[c].alg = "none"
        /\ SignatureMatches(tok[c], tok[c].kid)
        /\ tok[c].exp >= verifyAt[c] /\ tok[c].iss = ISSUER
        /\ tok[c].aud = AUDIENCE
        /\ res[c] = ErrCredentials

\* the call took its answer from the claims cache: it neither obtained a
\* key set nor had a key fetch fail
CacheHit(c) == Done(c) /\ ~jwks[c].has /\ ~fetchFailed[c]

\* C11: two decode_token calls with the same valid token inside the entry
\* TTL (here: within one second) both return claims, with identical
\* contents.
CE_C11_SameTokenSameClaims ==
    \A c1 \in Callers, c2 \in Callers :
        ( c1 # c2 /\ Done(c1) /\ Done(c2) /\ tok[c1] = tok[c2] )
        => ( res[c1].kind = "claims" /\ res[c2] = res[c1] )

\* C12: a call that ends in an error leaves the claims cache as it was and
\* did not take its answer from the cache, so a later call with the same
\* token goes through the key set and jwt.decode again and raises again.
Thm_C12_FailureNotCached ==
    [][ \A c \in Callers :
          ( pc[c] # "done" /\ pc'[c] = "done" /\ res'[c].kind = "error" )
          => ( redisTok' = redisTok /\ ~CacheHit(c)' ) ]_vars

Wit_C12_FailedAgainAfterCachedKeys ==
    \E c \in Callers :
        /\ Decoded(c) /\ res[c] = ErrCredentials
        /\ ~SignatureMatches(tok[c], tok[c].kid)
        /\ redisJwks.has /\ ~fetchFailed[c] /\ startAt[c] > 0
        /\ \A fp \in Fingerprints : ~redisTok[fp].has

\* ------------------------------------------------- dependencies: outcomes
GateDone == gatePc = "done"
Status(r) == IF r.kind = "error" THEN r.status ELSE 200
Authorized == response.kind = "user"
Forbidden == Status(response) = 403
Unauthenticated == Status(response) = 401

\* the request carries a credential that verifies: signed under RS256 by
\* the published key its header names, unexpired on arrival, issued by the
\* realm for the backend's client; and the key set can be fetched
GateValidToken(t, at) ==
    /\ t.wellFormed /\ t.alg \in ALGORITHMS /\ t.kid \in idpKeys
    /\ SignatureMatches(t, t.kid) /\ t.exp >= at
    /\ t.iss = ISSUER /\ t.aud = CLIENT_ID
Verified ==
    /\ request.cred.has /\ request.fetch = "ok"
    /\ GateValidToken(request.cred.token, request.at)
RoleSet(roles) == {roles[i] : i \in 1..Len(roles)}
CsrfMatches ==
    /\ request.csrf_token # Absent /\ request.csrf_cookie # Absent
    /\ request.csrf_token = request.csrf_cookie

\* C13: on an endpoint requiring the non-empty role set R, a verified
\* identity with role set S is Authorized when S and R share a role,
\* whatever its position in the token's role list, and Forbidden otherwise.
CE_C13_RoleIntersection ==
    ( GateDone /\ request.endpoint = "require_roles"
      /\ request.required # {} /\ Verified )
    => IF RoleSet(request.cred.token.roles) \cap request.required # {}
       THEN Authorized ELSE Forbidden

\* C14: an endpoint with the empty required-role set (require_roles([]) or
\* the plain get_current_user dependency) authorizes every verified
\* identity.
CE_C14_EmptyRequiredSet ==
    ( GateDone /\ request.endpoint \in {"require_roles", "get_current_user"}
      /\ request.required = {} /\ Verified )
    => Authorized

\* C15: a verified token without role claim carries the empty role set and
\* is Forbidden on every endpoint that requires a non-empty role set.
CE_C15_NoRoleIsForbidden ==
    ( GateDone /\ request.endpoint = "require_roles"
      /\ request.required # {} /\ Verified
      /\ request.cred.token.roles = <<>> )
    => Forbidden

\* C16: with the key set available, every authentication ends Authorized,
\* Forbidden or Unauthenticated; a missing credential, and every credential
\* whose verification fails, ends Unauthenticated.
CE_C16_ThreeOutcomes ==
    ( GateDone /\ request.fetch = "ok"
      /\ request.endpoint \in {"require_roles", "get_current_user",
                                "get_current_user_from_cookies"} )
    => /\ Authorized \/ Forbidden \/ Unauthenticated
       /\ ~request.cred.has => Unauthenticated
       /\ ( request.cred.has /\ ~Verified
            /\ request.csrf_token = request.csrf_cookie ) => Unauthenticated

\* C17: on a role-protected endpoint, with the key set available, a
\* request whose credential is missing or does not verify gets 401 and
\* never 403.
CE_C17_InvalidIs401Not403 ==
    ( GateDone /\ request.endpoint = "require_roles"
      /\ request.fetch = "ok" /\ ~Verified )
    => Unauthenticated

\* C18: in validate_csrf and in get_current_user_from_cookies (reached with
\* an access token) a request whose CSRF header and cookie are not both
\* present and equal is answered 403.
CE_C18_CsrfBothPresentAndEqual ==
    ( GateDone /\ ~CsrfMatches
      /\ \/ request.endpoint = "validate_csrf"
         \/ request.endpoint = "get_current_user_from_cookies"
            /\ request.cred.has )
    => Forbidden

\* C19: on a cookie-authenticated endpoint a verified credential with a
\* mismatching CSRF pair is answered 403 "Invalid CSRF token", and a
\* matching CSRF pair with a missing or unverifiable credential is answered
\* 401 (key set available).
CE_C19_CsrfAndCredential ==
    ( GateDone /\ request.endpoint = "get_current_user_from_cookies" )
    => /\ ( Verified /\ request.csrf_token # request.csrf_cookie )
            => response = ErrCsrfInvalid
       /\ ( CsrfMatches /\ request.fetch = "ok" /\ ~Verified )
            => Unauthenticated

\* ------------------------------------------------- rate limiter: outcomes
\* the accepted earlier requests of the i-th request's address that are not
\* older than the window on its arrival
AcceptedInWindow(i) ==
    {j \in 1..(i - 1) :
        /\ rlLog[j].addr = rlLog[i].addr /\ rlLog[j].accepted
        /\ rlLog[j].at >= rlLog[i].at - window_seconds}

\* C20: a request is accepted exactly when fewer than max_requests accepted
\* requests of its address lie in the window: the first max_requests in a
\* window are accepted, the next one in that window is rejected, and a
\* request arriving once the window of the accepted ones has passed is
\* accepted again.
Thm_C20_WindowLimit ==
    \A i \in 1..Len(rlLog) :
        rlLog[i].accepted <=> Cardinality(AcceptedInWindow(i)) < max_requests

Wit_C20_RejectedThenAcceptedAfterWindow ==
    \E i \in 1..Len(rlLog), j \in 1..Len(rlLog) :
        /\ i < j /\ rlLog[i].addr = rlLog[j].addr
        /\ ~rlLog[i].accepted /\ rlLog[j].accepted
        /\ Cardinality(AcceptedInWindow(i)) = max_requests
        /\ \A k \in AcceptedInWindow(i) :
              rlLog[j].at > rlLog[k].at + window_seconds

\* C21: after every admission decision the sequence recorded for the
\* deciding address holds only timestamps of the last window_seconds before
\* the decision's time, in non-decreasing order, and at most max_requests of
\* them.
Thm_C21_WindowSequence ==
    rlLog # <<>> =>
      LET e == rlLog[Len(rlLog)]
          request_times == clients[e.addr]
      IN /\ \A i \in 1..Len(request_times) :
               /\ request_times[i] >= e.at - window_seconds
               /\ request_times[i] <= e.at
         /\ \A i \in 1..Len(request_times), j \in 1..Len(request_times) :
               i < j => request_times[i] <= request_times[j]
         /\ Len(request_times) <= max_requests

Wit_C21_PrunedAndFull ==
    /\ rlLog # <<>>
    /\ LET e == rlLog[Len(rlLog)] IN
         /\ Len(clients[e.addr]) = max_requests
         /\ \E j \in 1..(Len(rlLog) - 1) :
               /\ rlLog[j].addr = e.addr /\ rlLog[j].accepted
               /\ rlLog[j].at < e.at - window_seconds

\* C22: a request the rate limiter rejects is not handed on (no token
\* verification, cache access or key fetch happens for it) and is answered
\* 429, whatever credential it carries.
CE_C22_RejectedBeforeAuthWith429 ==
    ( GateDone /\ rlLog # <<>> /\ ~rlLog[Len(rlLog)].accepted )
    => ( ~callNext /\ Status(response) = 429 )

\* C23: a call whose key fetch fails while no key set was ever fetched or
\* cached is answered 503, and with no other status.
CE_C23_KeyFetchErrorIs503 ==
    \A c \in Callers :
        ( Done(c) /\ fetchFailed[c] /\ ~lastFetched.has /\ ~jwks_cache.has )
        => res[c] = ErrUnavailable

Thm_C25_LoginIssuesThreeCookies ==
    ((sessPc = "done" /\ sreq.path = "/auth/login") /\ reply.status = 200) =>
        /\ \A n \in CookieNames \ {"id_token"} :
             /\ reply.set[n].kind = "set"
             /\ jar[n] = reply.set[n].cookie
        /\ jar["access_token"].value = sreq.idp.access_token
        /\ jar["refresh_token"].value = sreq.idp.refresh_token
        /\ jar["csrf_token"].value = sreq.csrf
        /\ sreq.idp.expires_in # NoValue =>
             /\ jar["access_token"].max_age = sreq.idp.expires_in
             /\ jar["csrf_token"].max_age = sreq.idp.expires_in
        /\ sreq.idp.refresh_expires_in # NoValue =>
             jar["refresh_token"].max_age = sreq.idp.refresh_expires_in

Wit_C25_LoggedInWithProviderLifetimes ==
    /\ (sessPc = "done" /\ sreq.path = "/auth/login")
    /\ reply.status = 200
    /\ sreq.idp.expires_in = 360
    /\ sreq.idp.refresh_expires_in = 3600
    /\ jar["access_token"].max_age = 360
    /\ jar["refresh_token"].max_age = 3600
    /\ jar["csrf_token"].max_age = 360

\* C26: a login whose credentials the provider rejects is answered 401, a
\* login that fails for any reason (the user row missing, the database
\* failing, the provider unreachable or answering without a token) is
\* answered with an error status, and no failed login sets a cookie
Thm_C26_FailedLoginIssuesNothing ==
    (sessPc = "done" /\ sreq.path = "/auth/login") =>
        /\ sreq.idp.status = "rejected" => reply.status = 401
        /\ (\/ sreq.idp.status # "ok"
            \/ sreq.idp.access_token = Absent
            \/ sreq.idp.refresh_token = Absent
            \/ sreq.db # "found") =>
             /\ reply.status >= 400
             /\ \A n \in CookieNames : reply.set[n].kind # "set"

Wit_C26_RejectedWith401 ==
    /\ (sessPc = "done" /\ sreq.path = "/auth/login")
    /\ sreq.idp.status = "rejected"
    /\ reply.status = 401
    /\ (\A n \in CookieNames : reply.set[n] = NoHeader)

\* C27: a logout is answered with success whatever cookies the client holds,
\* it deletes the access-token, refresh-token, CSRF and id-token cookies, the
\* client then holds none of them, and a second logout would leave the client
\* as the first did
Thm_C27_LogoutRevokesAll ==
    (sessPc = "done" /\ sreq.path = "/auth/logout") =>
        /\ reply.status = 200
        /\ \A n \in CookieNames :
             /\ reply.set[n].kind = "delete"
             /\ ~jar[n].present
        /\ StoreCookies(jar, reply.set) = jar

\* a client that holds no cookie has logged out
Wit_C27_LogoutWithNothingSet ==
    /\ (sessPc = "done" /\ sreq.path = "/auth/logout")
    /\ sreq.cookies = {}
    /\ reply.status = 200
    /\ \A n \in CookieNames \ {"id_token"} : reply.set[n].kind = "delete"

\* C28: whenever the client holds session cookies, and whenever a response
\* sets them, the access-token and refresh-token cookies are HTTP-only and
\* the CSRF cookie is not
Thm_C28_HttpOnlyButCsrf ==
    /\ \A n \in {"access_token", "refresh_token"} :
         /\ jar[n].present => jar[n].httponly
         /\ reply.set[n].kind = "set" => reply.set[n].cookie.httponly
    /\ jar["csrf_token"].present => ~jar["csrf_token"].httponly
    /\ reply.set["csrf_token"].kind = "set" =>
         ~reply.set["csrf_token"].cookie.httponly

Wit_C28_HoldsAllThree ==
    /\ \A n \in CookieNames \ {"id_token"} : jar[n].present
    /\ jar["access_token"].httponly
    /\ jar["refresh_token"].httponly
    /\ ~jar["csrf_token"].httponly

\* C29: a refresh request whose refresh token the provider accepts is
\* answered with success and sets a new access-token cookie
CE_C29_RefreshIssuesAccessCookie ==
    (/\ (sessPc = "done" /\ sreq.path = "/auth/refresh-token")
     /\ sreq.idp.status = "ok"
     /\ sreq.idp.access_token # Absent) =>
        /\ reply.status = 200
        /\ reply.set["access_token"].kind = "set"
        /\ jar["access_token"].value = sreq.idp.access_token

\* C30: a callback whose code exchange succeeds is answered with success and
\* stores the access token in the access_token cookie
CE_C30_CallbackStoresAccessCookie ==
    (/\ (sessPc = "done" /\ sreq.path = "/auth/callback")
     /\ sreq.code # Absent
     /\ sreq.idp.status = "ok"
     /\ sreq.idp.access_token # Absent) =>
        /\ reply.status < 400
        /\ reply.set["access_token"].kind = "set"
        /\ jar["access_token"].value = sreq.idp.access_token

\* C31: a client that holds the three cookies of a login and sends the value
\* of its csrf_token cookie in the CSRF header is not rejected by the CSRF
\* check of get_current_user_from_cookies or of validate_csrf
CE_C31_LoginCookiePassesCsrf ==
    (/\ gatePc = "done"
     /\ \A n \in CookieNames \ {"id_token"} : jar[n].present
     /\ request.csrf_token = jar["csrf_token"].value) =>
        response \notin {ErrCsrfInvalid, ErrCsrfMissing}

\* C33: a token whose exp lies one second in the past at the time of
\* verification, within any leeway of a second or more, and that is
\* otherwise valid (signed by the key its header names, configured issuer
\* and audience) is accepted: the call returns claims
CE_C33_ExpiredWithinLeewayAccepted ==
    \A c \in Callers :
        ( Decoded(c) /\ SignedByNamedKey(tok[c])
            /\ tok[c].iss = ISSUER /\ tok[c].aud = AUDIENCE
            /\ tok[c].exp = verifyAt[c] - 1 )
        => res[c].kind = "claims"

\* C34: whatever the order in which the requests of concurrent clients run
\* their prune-test-append step, the accepted requests of one address whose
\* timestamps lie in a span of window_seconds starting at any of them are at
\* most max_requests
Thm_C34_AtMostMaxPerSpan ==
    \A i \in 1..Len(rlLog) :
        rlLog[i].accepted =>
            Cardinality({j \in 1..Len(rlLog) :
                            /\ rlLog[j].addr = rlLog[i].addr
                            /\ rlLog[j].accepted
                            /\ rlLog[j].at >= rlLog[i].at
                            /\ rlLog[j].at <= rlLog[i].at + window_seconds})
              <= max_requests

\* requests of one address arriving at the same instant: max_requests of
\* them are accepted and a further one is rejected
Wit_C34_SimultaneousRequests ==
    \E k \in 1..Len(rlLog) :
        /\ ~rlLog[k].accepted
        /\ Cardinality({j \in 1..Len(rlLog) :
                           /\ rlLog[j].addr = rlLog[k].addr
                           /\ rlLog[j].accepted
                           /\ rlLog[j].at = rlLog[k].at}) = max_requests

\* C35: the list recorded for an address holds, after each of its decisions,
\* exactly the timestamps of its accepted requests of the last
\* window_seconds, none of a rejected request; so a request is accepted
\* whenever fewer than max_requests accepted requests of its address lie in
\* its window, however many rejected ones do
Thm_C35_RejectedLeavesNoTimestamp ==
    /\ rlLog # <<>> =>
         LET e == rlLog[Len(rlLog)]
             request_times == clients[e.addr]
             kept == {j \in 1..Len(rlLog) :
                         /\ rlLog[j].addr = e.addr /\ rlLog[j].accepted
                         /\ rlLog[j].at >= e.at - window_seconds}
         IN \A t \in 0..e.at :
               Cardinality({i \in 1..Len(request_times) :
                               request_times[i] = t})
                 = Cardinality({j \in kept : rlLog[j].at = t})
    /\ \A i \in 1..Len(rlLog) :
         (/\ Cardinality(AcceptedInWindow(i)) < max_requests
          /\ \E k \in 1..(i - 1) :
                /\ rlLog[k].addr = rlLog[i].addr /\ ~rlLog[k].accepted
                /\ rlLog[k].at >= rlLog[i].at - window_seconds)
         => rlLog[i].accepted

\* a rejected client is accepted once its oldest accepted requests have left
\* the window, the rejected request still lying in it
Wit_C35_AcceptedAfterRejection ==
    \E k \in 1..Len(rlLog), i \in 1..Len(rlLog) :
        /\ k < i
        /\ rlLog[k].addr = rlLog[i].addr
        /\ ~rlLog[k].accepted /\ rlLog[i].accepted
        /\ rlLog[k].at >= rlLog[i].at - window_seconds
        /\ clients[rlLog[i].addr] = <<rlLog[i].at>>

\* C36: a request of one address is decided by the accepted requests of that
\* address in its window and by nothing else, and it leaves the list
\* recorded for every other address as it was
Thm_C36_AddressesIndependent ==
    [][ Len(rlLog') = Len(rlLog) + 1 =>
          LET e == rlLog'[Len(rlLog')] IN
            /\ e.accepted <=>
                 Cardinality({j \in 1..Len(rlLog) :
                                 /\ rlLog[j].addr = e.addr
                                 /\ rlLog[j].accepted
                                 /\ rlLog[j].at >= e.at - window_seconds})
                   < max_requests
            /\ \A other \in ClientAddrs \ {e.addr} :
                 clients'[other] = clients[other] ]_vars

\* one address has used up its limit and been rejected; a request of the
\* other address arriving at the same instant is accepted
Wit_C36_OtherAddressUnaffected ==
    \E k \in 1..Len(rlLog) :
        /\ ~rlLog[k].accepted
        /\ Len(clients[rlLog[k].addr]) = max_requests
        /\ LET e == rlLog[Len(rlLog)] IN
             /\ e.addr # rlLog[k].addr
             /\ e.accepted
             /\ e.at = rlLog[k].at
             /\ clients[e.addr] = <<e.at>>

\* C37: a cache call that fails changes no outcome.  A get answers the
\* stored entry or a miss and nothing else, a miss (the entry absent or the
\* call failing) changes nothing but the call's position, and a call that
\* goes on to the key fetch ends, whether or not an entry was stored before
\* it and whether or not its own cache.set stores one, with the outcome of a
\* call on an empty cache: the error of a failed fetch, or the verification
\* of its token against the keys just fetched
Thm_C37_CacheFailureIsMiss ==
    [][ \A c \in SeqCallers :
          /\ ( pc[c] = "token_get" /\ pc'[c] # "token_get" ) =>
                \/ pc'[c] = "jwks_get" /\ res' = res
                \/ redisTok[Fingerprint(tok[c])].has
          /\ ( pc[c] = "jwks_get" /\ pc'[c] # "jwks_get" ) =>
                \/ pc'[c] = "fetching" /\ res' = res /\ jwks' = jwks
                                       /\ redisJwks' = redisJwks
                \/ redisJwks.has /\ jwks'[c] = SomeKeys(redisJwks.keys)
          /\ ( pc[c] \in {"fetching", "jwks_set"}
                 /\ pc'[c] \notin {"fetching", "jwks_set"} ) =>
                res'[c] = IF fetchFailed'[c]
                          THEN HandleException("HTTPException")
                          ELSE VerifyResult(tok[c], lastFetched'.keys,
                                            now).res ]_vars

\* the call fetched the keys, its cache.set stored nothing, and it ended with
\* the answer of the verification: the token has expired
Wit_C37_SetFailedOutcomeKept ==
    \E c \in SeqCallers :
        /\ Decoded(c) /\ verifyAt[c] = now
        /\ ~fetchFailed[c] /\ jwks[c] = lastFetched
        /\ ~redisJwks.has
        /\ res[c] = ErrExpired

\* C38: once a refresh has stored the key set most recently fetched from the
\* provider, the cached set stays that set until a newer one is fetched, and
\* every verification that follows uses a key of that set: a key the
\* provider's new set lacks verifies no token
CE_C38_RefreshedSetIsUsed ==
    [][ \A c \in Callers :
          ( /\ redisJwks.has /\ redisJwks.keys = lastFetched.keys
            /\ lastFetched' = lastFetched
            /\ verifyAt[c] = -1 /\ verifyAt'[c] >= 0 )
          => ( /\ tok[c].kid \in lastFetched.keys
               /\ redisJwks'.keys = lastFetched.keys ) ]_vars

\* C39: a read-only request that carries an access credential is not
\* rejected by the CSRF check, whatever CSRF header and cookie it carries
CE_C39_ReadOnlySkipsCsrf ==
    (/\ gatePc = "done"
     /\ request.method = "GET"
     /\ request.cred.has) =>
        response \notin {ErrCsrfInvalid, ErrCsrfMissing}

\* ---------------------------------------------- ConnectionManager: outcomes
\* C40: when a broadcast has returned, every socket that stayed registered
\* from its start to its end has received the message or had its send fail,
\* every socket whose send failed is out of its registry, and every other
\* socket that stayed is still registered.
CE_C40_StayedReceivesOrIsRemoved ==
    bc.pc = "done" =>
        LET registry == IF bc.connection_type = "admin"
                        THEN admin_connections ELSE appointment_connections
            registered == {registry[k] : k \in 1..Len(registry)}
            broken == {bc.broken_connections[k] :
                           k \in 1..Len(bc.broken_connections)}
        IN  /\ \A w \in bc.stayed : w \in bc.sent \/ w \in broken
            /\ broken \cap registered = {}
            /\ bc.stayed \ broken \subseteq registered
====
